---- MODULE Spec2Model ----
(***************************************************************************)
(* The authenticated request client of src/src/lib/api.ts: apiFetch with   *)
(* its silent token refresh (refreshToken), as an interleaving of the      *)
(* continuations the JavaScript event loop runs.  One action is one        *)
(* continuation: the code between two awaits runs atomically.              *)
(*                                                                         *)
(* Then the live analysis page that consumes the pipeline's event stream   *)
(* (src/src/pages/projects/live-analysis.tsx) with the project store it    *)
(* writes to, the auth store (src/src/store/auth.ts) with the functions    *)
(* that await a call of the client, and the list of the project store      *)
(* (src/unnamed/part_000).  Each part has its own specification, in which  *)
(* the other parts stay as they start: Spec (the client), StreamSpec (the  *)
(* page), SeveritySpec (the pure functions of the page), AuthSpec (the     *)
(* auth store over the client) and ProjectsSpec (the project store).       *)
(***************************************************************************)
EXTENDS Integers, Sequences, FiniteSets, TLC

\* Number of apiFetch calls made during one run (each call id is used once).
NumCalls == 2

Calls == 1..NumCalls

\* JavaScript values a token variable can hold.
NULL == "null"
UNDEF == "undefined"
EMPTY == ""
Tokens == {"tokA", "tokB"}

\* "no Authorization header on the request"
NOHDR == "no-header"

\* HTTP status of the 401 test at api.ts:125
Unauthorized == 401

Statuses == {200, 401, 500}

\* if (token) / if (newToken) / t ? ... : ...   (JavaScript truthiness of a
\* string | null | undefined value)
Truthy(t) == t \notin {NULL, UNDEF, EMPTY}

\* a ?? b ?? null   (nullish coalescing: only null/undefined fall through, the
\* empty string does not)
Coalesce(a, b) ==
    IF a \notin {NULL, UNDEF} THEN a
    ELSE IF b \notin {NULL, UNDEF} THEN b
    ELSE NULL

\* res.ok
Ok(status) == status >= 200 /\ status <= 299

(***************************************************************************)
(* Responses of the server.  ctype "json" is a content-type header that    *)
(* includes application/json; parses says whether res.json() resolves;     *)
(* errcode is body.error.code, or "absent" when the body has no error      *)
(* envelope.                                                               *)
(***************************************************************************)
ErrCodes == {"INVALID_CREDENTIALS"}

Bodies ==
    {[ctype |-> "other", parses |-> FALSE, errcode |-> "absent"],
     [ctype |-> "json", parses |-> FALSE, errcode |-> "absent"],
     [ctype |-> "json", parses |-> TRUE, errcode |-> "absent"]}
    \cup {[ctype |-> "json", parses |-> TRUE, errcode |-> e] : e \in ErrCodes}

\* (an error envelope in a 2xx body is never looked at: api.ts:148)
Responses ==
    {r \in {[status |-> s, ctype |-> b.ctype, parses |-> b.parses, errcode |-> b.errcode] :
                s \in Statuses, b \in Bodies} :
        Ok(r.status) => r.errcode = "absent"}

NoRes == [status |-> 0, ctype |-> "other", parses |-> FALSE, errcode |-> "absent"]

NoOutcome == [kind |-> "pending", status |-> 0, code |-> "none"]

\* fetch() rejected: the TypeError propagates out of apiFetch
NetworkFailure == [kind |-> "TypeError", status |-> 0, code |-> "none"]

\* new ApiException(status, error)
ApiException(status, code) == [kind |-> "ApiException", status |-> status, code |-> code]

\* api.ts:132-154: the part of apiFetch that turns the final response into
\* the value returned or the error thrown
ParseResponse(res) ==
    IF res.ctype = "json"
    THEN IF ~res.parses
         THEN [kind |-> "SyntaxError", status |-> 0, code |-> "none"]
         ELSE IF ~Ok(res.status)
              THEN ApiException(res.status,
                                IF res.errcode # "absent" THEN res.errcode
                                ELSE "UNKNOWN_ERROR")
              ELSE [kind |-> "returned", status |-> res.status, code |-> "none"]
    ELSE IF ~Ok(res.status)
         THEN ApiException(res.status, "NETWORK_ERROR")
         ELSE [kind |-> "returned", status |-> res.status, code |-> "none"]

\* api.ts:105-108 and 114-119 for the first attempt, doFetch(token): the
\* Authorization header the request carries (the caller passes none)
FirstAuth(token, skipAuth) ==
    LET h == IF Truthy(token) /\ ~skipAuth THEN token ELSE NOHDR
    IN  IF Truthy(token) THEN token ELSE h

\* api.ts:110-120, doFetch(t): the Authorization header of the request sent,
\* given the one the shared headers object holds
doFetch(header, t) == IF Truthy(t) THEN t ELSE header

\* Mutants of the condition at api.ts:125: a loop instead of an if; a refresh
\* on every error status; a refresh that ignores skipAuth.
NeedsRefreshLoop(sends, status, skipAuth) ==
    status = Unauthorized /\ ~skipAuth

NeedsRefreshAnyError(sends, status, skipAuth) ==
    sends = 1 /\ status >= 400 /\ ~skipAuth

NeedsRefreshIgnoresSkip(sends, status, skipAuth) ==
    sends = 1 /\ status = Unauthorized

\* api.ts:125: the condition of the refresh-and-retry path.  It is an if, not
\* a loop: only the response to the first send (sends = 1) is tested.
NeedsRefresh(sends, status, skipAuth) ==
    sends = 1 /\ status = Unauthorized /\ ~skipAuth

\* Mutant of the coalescing test: every refreshToken() call sends a request.
CoalescesNever(isRefreshing, promise) == FALSE

\* api.ts:64: the coalescing test of refreshToken()
Coalesces(isRefreshing, promise) == isRefreshing /\ promise # 0

\* Mutant of api.ts:76: the token is written whatever the body held.
TokenAfterRefreshAlways(current, token) == token

\* api.ts:76: if (token) setAccessToken(token)
TokenAfterRefresh(current, token) == IF Truthy(token) THEN token ELSE current

\* api.ts:68-79: what the refresh promise settles to.  thrown: fetch() or
\* res.json() threw, or the body could not be dereferenced; the catch turns
\* it into null.
RefreshSettles(thrown, value) ==
    IF thrown THEN [rejected |-> FALSE, value |-> NULL]
    ELSE [rejected |-> FALSE, value |-> value]

VARIABLES
    accessToken,      \* _accessToken
    isRefreshing,     \* _isRefreshing
    refreshPromise,   \* _refreshPromise: 0 is null, else an index of refreshes
    refreshes,        \* the promises refreshToken() has created, in order
    calls             \* the apiFetch calls

vars == <<accessToken, isRefreshing, refreshPromise, refreshes, calls>>

\* The live analysis page (src/src/pages/projects/live-analysis.tsx), the
\* project store it writes to, and the stream transport that calls it back.
VARIABLES
    logs,             \* useState<LogEntry[]>([])
    isPaused,         \* useState(false)
    connectionState,  \* useState<ConnectionState>("connecting")
    pipelineStatus,   \* useState<PipelineStatus>("running")
    loadError,        \* useState<string | null>(null)
    mounted,          \* the page component is mounted
    id,               \* useParams().id: the project the page shows
    phase,            \* where the transport of the live connection stands
    stale,            \* the ids whose connection has been aborted
    projects,         \* useProjectStore: the status of each cached project
    loading,          \* the ids whose getProject request is in flight
    scrolled,         \* the length of the log the view was last scrolled to
    received,         \* the number of messages onmessage was called with
    dones,            \* the number of them whose step is "done"
    last              \* the data of the last of them

pageVars == <<logs, isPaused, connectionState, pipelineStatus, loadError,
              mounted, id, phase, stale, projects, loading, scrolled,
              received, dones, last>>

\* The event a pure function of the page is applied to, and what it gave.
VARIABLE probe

\* The auth store (src/src/store/auth.ts) and, for each apiFetch call, the
\* function that awaits it.
VARIABLES
    user,             \* useAuthStore: user
    isAuthenticated,  \* useAuthStore: isAuthenticated
    initialized,      \* useAuthStore: initialized
    roles             \* who awaits each call: initAuth, handleLogout, the
                      \* login form, a page

authVars == <<user, isAuthenticated, initialized, roles>>

\* The project store (src/unnamed/part_000, projects.ts) with the server it
\* talks to.  list is state.projects as the array of ids it is (the page
\* above sees the same store through the status of each project).
VARIABLES
    list,             \* useProjectStore: the ids of projects, in order
    server,           \* the ids of the projects the server holds
    created,          \* the ids the server has ever given to a project
    answers,          \* the responses to projectsApi calls still in flight
    requests          \* number of projectsApi calls made

storeVars == <<list, server, created, answers, requests>>

\* what the request client never writes
elsewhere == <<pageVars, probe, authVars, storeVars>>

(***************************************************************************)
(* One apiFetch call.  auth is the Authorization value of its headers      *)
(* object (what a request sent now carries), status1 the status of the     *)
(* response to its first attempt, res the response it holds, sends the     *)
(* number of times it has sent its request, refreshCalls the number of     *)
(* times it has called refreshToken(), newToken the local of that name,    *)
(* awaits the promise it got from refreshToken().  The locals of a call go *)
(* away when it ends: a call that is done keeps what its caller and the    *)
(* server saw of it.  While a call                                         *)
(* awaits the refresh no request of it is in flight and the retry          *)
(* overwrites the header (doFetch is only reached with a truthy token), so *)
(* auth is NOHDR there.  A settled promise is referenced by nothing: the   *)
(* value it settled to lives on in the calls that awaited it.              *)
(***************************************************************************)
IdleCall ==
    [pc |-> "idle", skipAuth |-> FALSE, auth |-> NOHDR, status1 |-> 0,
     res |-> NoRes, sends |-> 0, refreshCalls |-> 0, awaits |-> 0,
     newToken |-> NULL, outcome |-> NoOutcome]

\* api.ts:46-50: the module-level state of the client when it is loaded
ApiInit ==
    /\ accessToken = NULL
    /\ isRefreshing = FALSE
    /\ refreshPromise = 0
    /\ refreshes = <<>>
    /\ calls = [c \in Calls |-> IdleCall]

\* api.ts:52-54, called by the auth store on login (a token) and logout (null)
setAccessToken(token) ==
    /\ token \in Tokens \cup {NULL}
    /\ token # accessToken
    /\ accessToken' = token
    /\ UNCHANGED <<isRefreshing, refreshPromise, refreshes, calls>>
    /\ UNCHANGED elsewhere

\* api.ts:97-122: apiFetch up to its first await; the request is sent.
\* Calls are started in the order of their ids.
apiFetch(c, skipAuth) ==
    /\ calls[c].pc = "idle"
    /\ \A d \in Calls : d < c => calls[d].pc # "idle"
    /\ calls' = [calls EXCEPT ![c] =
            [@ EXCEPT !.pc = "fetch1", !.skipAuth = skipAuth,
                      !.auth = FirstAuth(accessToken, skipAuth), !.sends = 1]]
    /\ UNCHANGED <<accessToken, isRefreshing, refreshPromise, refreshes>>
    /\ UNCHANGED elsewhere

\* the status of the response to the first attempt of call k
First(k, res) == IF k.sends = 1 THEN res.status ELSE k.status1

\* Call k ends with outcome o, having last held response res.
Ended(k, res, o) ==
    [k EXCEPT !.pc = "done", !.auth = NOHDR, !.awaits = 0, !.newToken = NULL,
              !.res = res,
              !.status1 = First(k, res), !.outcome = o]

\* The fetch of call c rejects (no response): apiFetch rejects with it.
FetchFails(c) ==
    /\ calls[c].pc \in {"fetch1", "fetch2"}
    /\ calls' = [calls EXCEPT ![c] = Ended(@, @.res, NetworkFailure)]
    /\ UNCHANGED <<accessToken, isRefreshing, refreshPromise, refreshes>>
    /\ UNCHANGED elsewhere

\* api.ts:122-155 and 63-86: a response to call c arrives.  On a 401 to the
\* first attempt without skipAuth the call runs refreshToken() up to its
\* first await: either it gets the pending promise, or it creates one and
\* sends POST /auth/refresh.  Any other response is parsed and ends the call
\* (the await of res.json() in between reads and writes no shared state, so
\* the body is read in the same step).
Response(c, res) ==
    /\ calls[c].pc \in {"fetch1", "fetch2"}
    /\ res \in Responses
    /\ IF NeedsRefresh(calls[c].sends, res.status, calls[c].skipAuth)
       THEN IF Coalesces(isRefreshing, refreshPromise)
            THEN /\ calls' = [calls EXCEPT ![c] =
                        [@ EXCEPT !.pc = "awaitRefresh", !.status1 = First(calls[c], res),
                                  !.res = res, !.refreshCalls = @ + 1, !.auth = NOHDR,
                                  !.awaits = refreshPromise]]
                 /\ UNCHANGED <<isRefreshing, refreshPromise, refreshes>>
            ELSE /\ refreshes' = Append(refreshes,
                        [state |-> "fetching", rejected |-> FALSE])
                 /\ isRefreshing' = TRUE
                 /\ refreshPromise' = Len(refreshes) + 1
                 /\ calls' = [calls EXCEPT ![c] =
                        [@ EXCEPT !.pc = "awaitRefresh", !.status1 = First(calls[c], res),
                                  !.res = res, !.refreshCalls = @ + 1, !.auth = NOHDR,
                                  !.awaits = Len(refreshes) + 1]]
       ELSE /\ calls' = [calls EXCEPT ![c] = Ended(@, res, ParseResponse(res))]
            /\ UNCHANGED <<isRefreshing, refreshPromise, refreshes>>
    /\ UNCHANGED accessToken
    /\ UNCHANGED elsewhere

\* api.ts:126-130: call k resumes from await refreshToken() with the settled
\* promise s
Resume(k, s) ==
    IF s.rejected
    THEN Ended(k, k.res, NetworkFailure)
    ELSE IF Truthy(s.value)
         THEN [k EXCEPT !.pc = "fetch2", !.sends = @ + 1, !.res = NoRes,
                        !.newToken = s.value, !.auth = doFetch(k.auth, s.value)]
         ELSE Ended(k, k.res, ParseResponse(k.res))

\* api.ts:80-85: the refresh promise p settles: the finally block runs and,
\* in the same drain of the microtask queue, every call awaiting p resumes.
Settle(p, s) ==
    /\ refreshes' = [refreshes EXCEPT ![p] =
            [state |-> "settled", rejected |-> s.rejected]]
    /\ isRefreshing' = FALSE
    /\ refreshPromise' = 0
    /\ calls' = [c \in Calls |->
            IF calls[c].pc = "awaitRefresh" /\ calls[c].awaits = p
            THEN Resume(calls[c], s)
            ELSE calls[c]]

\* api.ts:69-73 and 78-83: the refresh request fails on the network, or its
\* response is not ok, or it is ok and res.json() is awaited
RefreshResponse(p, kind) ==
    /\ p \in 1..Len(refreshes)
    /\ refreshes[p].state = "fetching"
    /\ kind \in {"network", "notok", "ok"}
    /\ IF kind = "ok"
       THEN /\ refreshes' = [refreshes EXCEPT ![p].state = "parsing"]
            /\ UNCHANGED <<isRefreshing, refreshPromise, calls>>
       ELSE Settle(p, RefreshSettles(kind = "network", NULL))
    /\ UNCHANGED accessToken
    /\ UNCHANGED elsewhere

\* api.ts:74-83: the body of the ok refresh response has been read.
\* parses = FALSE: res.json() threw, or json was null.
RefreshBody(p, parses, dataAccessToken, topAccessToken) ==
    /\ p \in 1..Len(refreshes)
    /\ refreshes[p].state = "parsing"
    /\ dataAccessToken \in Tokens \cup {UNDEF, EMPTY}
    /\ topAccessToken \in Tokens \cup {UNDEF, EMPTY}
    /\ LET token == Coalesce(dataAccessToken, topAccessToken)
       IN  IF parses
           THEN /\ accessToken' = TokenAfterRefresh(accessToken, token)
                /\ Settle(p, RefreshSettles(FALSE, token))
           ELSE /\ UNCHANGED accessToken
                /\ Settle(p, RefreshSettles(TRUE, NULL))
    /\ UNCHANGED elsewhere

Next ==
    \/ \E t \in Tokens \cup {NULL} : setAccessToken(t)
    \/ \E c \in Calls, s \in BOOLEAN : apiFetch(c, s)
    \/ \E c \in Calls : FetchFails(c)
    \/ \E c \in Calls, r \in Responses : Response(c, r)
    \/ \E p \in 1..Len(refreshes), k \in {"network", "notok", "ok"} : RefreshResponse(p, k)
    \/ \E p \in 1..Len(refreshes), ok \in BOOLEAN,
          d \in Tokens \cup {UNDEF, EMPTY}, a \in Tokens \cup {UNDEF, EMPTY} :
            RefreshBody(p, ok, d, a)

(***************************************************************************)
(* Properties                                                              *)
(***************************************************************************)
Promises == 1..Len(refreshes)

\* the refresh promises that have not settled
Pending == {p \in Promises : refreshes[p].state # "settled"}

\* the refresh requests on the network
InFlight == {p \in Promises : refreshes[p].state = "fetching"}

\* the calls suspended in await refreshToken() on promise p
Awaiting(p) == {c \in Calls : calls[c].pc = "awaitRefresh" /\ calls[c].awaits = p}

\* call k took the 401 path: not skipAuth, 401 to its first attempt
Took401(k) == ~k.skipAuth /\ k.status1 = Unauthorized

Is401Error(o) == o.kind = "ApiException" /\ o.status = Unauthorized

\* C1: N >= 2 calls without skipAuth that all get 401 before any refresh has
\* completed share one POST /auth/refresh (they all await the one pending
\* promise); when it settles either every one of them re-sends its request
\* once with the token it yielded, or (no token) every one of them ends with
\* an error of status 401.
C1_Claim ==
    [][\A p \in Promises :
        LET W == Awaiting(p)
        IN  Cardinality(W) >= 2 =>
              /\ Pending = {p}
              /\ \A c \in Calls : calls[c].pc = "awaitRefresh" => c \in W
              /\ refreshes'[p].state = "settled" =>
                   \/ \E t \in Tokens : \A c \in W :
                        /\ calls'[c].pc = "fetch2"
                        /\ calls'[c].sends = 2
                        /\ calls'[c].auth = t
                   \/ \A c \in W :
                        /\ calls'[c].pc = "done"
                        /\ calls'[c].sends = 1
                        /\ Is401Error(calls'[c].outcome)]_vars

\* The part of C1 that the code keeps: as C1_Claim, but a call whose 401
\* response announces JSON and does not parse ends with the SyntaxError of
\* res.json() instead of an error of status 401 (see C10).
C1_UpToParse ==
    [][\A p \in Promises :
        LET W == Awaiting(p)
        IN  Cardinality(W) >= 2 =>
              /\ Pending = {p}
              /\ \A c \in Calls : calls[c].pc = "awaitRefresh" => c \in W
              /\ refreshes'[p].state = "settled" =>
                   \/ \E t \in Tokens : \A c \in W :
                        /\ calls'[c].pc = "fetch2"
                        /\ calls'[c].sends = 2
                        /\ calls'[c].auth = t
                   \/ \A c \in W :
                        /\ calls'[c].pc = "done"
                        /\ calls'[c].sends = 1
                        /\ \/ Is401Error(calls'[c].outcome)
                           \/ /\ calls[c].res.ctype = "json"
                              /\ ~calls[c].res.parses
                              /\ calls'[c].outcome.kind = "SyntaxError"]_vars

\* C2 as stated: two calls without skipAuth that are in progress at the same
\* time and have both had 401 to their first attempt have one refresh between
\* them, whatever the order of the responses.
C2_Claim ==
    \A c1, c2 \in Calls :
        (/\ c1 # c2
         /\ Took401(calls[c1]) /\ calls[c1].pc \in {"awaitRefresh", "fetch2"}
         /\ Took401(calls[c2]) /\ calls[c2].pc \in {"awaitRefresh", "fetch2"})
        => calls[c1].awaits = calls[c2].awaits

\* C2 amended: two calls that are both suspended on the refresh (both had
\* their 401 before the refresh either of them awaits has completed) await
\* the same promise, and it is the only refresh that has not completed.
C2_Amended ==
    \A c1, c2 \in Calls :
        (/\ c1 # c2
         /\ calls[c1].pc = "awaitRefresh"
         /\ calls[c2].pc = "awaitRefresh")
        => /\ calls[c1].awaits = calls[c2].awaits
           /\ Pending = {calls[c1].awaits}

C2_Witness ==
    \E c1, c2 \in Calls :
        /\ c1 # c2
        /\ calls[c1].pc = "awaitRefresh"
        /\ calls[c2].pc = "awaitRefresh"
        /\ calls[c1].awaits = calls[c2].awaits
        /\ refreshes[calls[c1].awaits].state = "parsing"

\* C3: at most one POST /auth/refresh of refreshToken() is in flight; a call
\* that ran refreshToken() while one was pending awaits that pending promise
\* (the module's _refreshPromise) and no request was sent for it, and the
\* calls that awaited one promise resumed with the same token.
C3_SingleFlight ==
    /\ Cardinality(InFlight) <= 1
    /\ Cardinality(Pending) <= 1
    /\ \A c \in Calls : calls[c].pc = "awaitRefresh" =>
          /\ isRefreshing
          /\ calls[c].awaits = refreshPromise
          /\ calls[c].awaits \in Pending
    /\ \A c1, c2 \in Calls :
          (/\ calls[c1].pc = "fetch2" /\ calls[c2].pc = "fetch2"
           /\ calls[c1].awaits = calls[c2].awaits)
          => calls[c1].newToken = calls[c2].newToken

C3_Witness ==
    \E c1, c2 \in Calls :
        /\ c1 # c2
        /\ calls[c1].pc = "fetch2"
        /\ calls[c2].pc = "fetch2"
        /\ calls[c1].awaits = calls[c2].awaits
        /\ calls[c1].newToken = calls[c2].newToken
        /\ Len(refreshes) = 1

\* C4: a call sends its request at most twice and calls refresh at most
\* once; it sends a second time only after a 401 to the first attempt without
\* skipAuth and a refresh that gave a token, and the second request carries
\* that token; the retry's response, a 401 included, ends the call.
C4_RetryOnce ==
    \A c \in Calls :
        /\ calls[c].sends <= 2
        /\ calls[c].refreshCalls <= 1
        /\ calls[c].sends = 2 =>
              /\ Took401(calls[c])
              /\ calls[c].refreshCalls = 1
              /\ calls[c].pc \in {"fetch2", "done"}
        /\ calls[c].pc = "fetch2" =>
              /\ calls[c].sends = 2
              /\ calls[c].newToken \in Tokens
              /\ calls[c].auth = calls[c].newToken

\* the retry was answered 401 and the call ended there
C4_Witness ==
    \E c \in Calls :
        /\ calls[c].pc = "done"
        /\ calls[c].sends = 2
        /\ calls[c].refreshCalls = 1
        /\ calls[c].res.status = Unauthorized
        /\ Is401Error(calls[c].outcome)

\* C5: a call whose first response is not a 401 never calls refreshToken()
\* and never sends its request again.
C5_NoRefreshUnless401 ==
    \A c \in Calls :
        (calls[c].status1 # 0 /\ calls[c].status1 # Unauthorized) =>
            /\ calls[c].refreshCalls = 0
            /\ calls[c].sends = 1
            /\ calls[c].pc = "done"

C5_Witness ==
    \E c \in Calls :
        /\ ~calls[c].skipAuth
        /\ calls[c].pc = "done"
        /\ calls[c].status1 = 500
        /\ calls[c].refreshCalls = 0
        /\ calls[c].sends = 1

\* C6: a request of a skipAuth call carries no Authorization header, also
\* when a token is held; a request carries the header only when skipAuth is
\* not set.
C6_Claim ==
    \A c \in Calls :
        (calls[c].pc \in {"fetch1", "fetch2"} /\ calls[c].skipAuth)
            => calls[c].auth = NOHDR

\* C7: a skipAuth call that gets 401 calls no refresh and sends nothing
\* again; it ends with an ApiException of status 401 whose code is the code
\* of the response's error envelope.
C7_SkipAuth401 ==
    \A c \in Calls :
        (calls[c].skipAuth /\ calls[c].status1 = Unauthorized) =>
            /\ calls[c].pc = "done"
            /\ calls[c].refreshCalls = 0
            /\ calls[c].sends = 1
            /\ (calls[c].res.parses /\ calls[c].res.errcode # "absent") =>
                  calls[c].outcome =
                      ApiException(Unauthorized, calls[c].res.errcode)

C7_Witness ==
    \E c \in Calls :
        /\ calls[c].skipAuth
        /\ calls[c].status1 = Unauthorized
        /\ calls[c].res.errcode = "INVALID_CREDENTIALS"
        /\ calls[c].outcome = ApiException(Unauthorized, "INVALID_CREDENTIALS")
        /\ Len(refreshes) = 0

\* C8: a call without skipAuth that got 401 and whose refresh gave no token
\* (it ended having sent once) ends with an error of status 401.
C8_Claim ==
    \A c \in Calls :
        (Took401(calls[c]) /\ calls[c].pc = "done" /\ calls[c].sends = 1)
            => Is401Error(calls[c].outcome)

\* The part of C8 that the code keeps: the request is not sent again, and
\* the call ends with the error made from the 401 response, or with the
\* SyntaxError of res.json() when that response does not parse (see C10).
C8_UpToParse ==
    \A c \in Calls :
        (Took401(calls[c]) /\ calls[c].pc = "done" /\ calls[c].sends = 1)
            => /\ calls[c].res.status = Unauthorized
               /\ \/ Is401Error(calls[c].outcome)
                  \/ /\ calls[c].res.ctype = "json" /\ ~calls[c].res.parses
                     /\ calls[c].outcome.kind = "SyntaxError"

\* C9: the refresh promise never rejects; a refresh that fails on the
\* network or with a non-2xx response, or whose body gives no token, gives
\* its callers no token and leaves the access token as it was; a refresh
\* that gives its callers a token has written that token.
C9_RefreshFrame ==
    [][\A p \in Promises :
        (refreshes[p].state # "settled" /\ refreshes'[p].state = "settled") =>
            LET W == Awaiting(p)
            IN  /\ W # {}
                /\ ~refreshes'[p].rejected
                /\ \A c \in W :
                     /\ calls'[c].pc \in {"fetch2", "done"}
                     /\ calls'[c].outcome.kind # "TypeError"
                     /\ calls'[c].pc = "done" => accessToken' = accessToken
                     /\ calls'[c].pc = "fetch2" =>
                          /\ refreshes[p].state = "parsing"
                          /\ calls'[c].newToken \in Tokens
                          /\ accessToken' = calls'[c].newToken
                /\ accessToken' # accessToken =>
                     \A c \in W : calls'[c].pc = "fetch2"]_vars

\* a refresh gave no token while a token was held, and the token is still
\* held
C9_Witness ==
    \E c \in Calls :
        /\ calls[c].pc = "done"
        /\ calls[c].refreshCalls = 1
        /\ calls[c].sends = 1
        /\ accessToken \in Tokens
        /\ Len(refreshes) = 1
        /\ refreshes[1].state = "settled"

\* C10: a call returns normally only when its final response is 2xx; a
\* final response that is not 2xx makes it throw an ApiException with that
\* response's status; a network failure makes it reject with an error that
\* is not an ApiException.
C10_Claim ==
    \A c \in Calls :
        calls[c].pc = "done" =>
            /\ calls[c].outcome.kind = "returned" => Ok(calls[c].res.status)
            /\ (calls[c].res # NoRes /\ ~Ok(calls[c].res.status)) =>
                  /\ calls[c].outcome.kind = "ApiException"
                  /\ calls[c].outcome.status = calls[c].res.status
            /\ calls[c].res = NoRes =>
                  calls[c].outcome.kind \notin {"ApiException", "returned"}

\* The part of C10 that the code keeps: as C10_Claim, except that a response
\* that announces JSON and does not parse makes the call reject with the
\* SyntaxError of res.json(), whatever its status.
C10_UpToParse ==
    \A c \in Calls :
        calls[c].pc = "done" =>
            /\ calls[c].outcome.kind = "returned" => Ok(calls[c].res.status)
            /\ (calls[c].res # NoRes /\ ~Ok(calls[c].res.status)) =>
                  \/ /\ calls[c].outcome.kind = "ApiException"
                     /\ calls[c].outcome.status = calls[c].res.status
                  \/ /\ calls[c].res.ctype = "json" /\ ~calls[c].res.parses
                     /\ calls[c].outcome.kind = "SyntaxError"
            /\ calls[c].res = NoRes =>
                  calls[c].outcome.kind \notin {"ApiException", "returned"}

(***************************************************************************)
(* The live analysis page, src/src/pages/projects/live-analysis.tsx.       *)
(*                                                                         *)
(* A string the page builds or tests by its beginning is a sequence of     *)
(* pieces; a field of an event that is absent is UNDEF for the fields the  *)
(* code compares (step, status, type) and NoText for the fields it prints  *)
(* (msg, detail).                                                          *)
(***************************************************************************)
\* the check mark the message of a done event begins with
CHECK == "(check mark)"

\* the cross the message of an error event begins with
CROSS == "(cross)"

\* event.msg or event.detail is undefined
NoText == <<UNDEF>>

\* the values of event.msg and event.detail: absent, a plain text, a text
\* that begins with the check mark
Texts == {NoText, <<"text">>, <<CHECK, "text">>}

\* if (event.msg) / if (event.detail): a text that is there and not empty
HasText(t) == t # NoText /\ t # <<>>

\* event.msg ?? event.detail ?? "Unknown error"
FirstText(msg, detail) ==
    IF msg # NoText THEN msg
    ELSE IF detail # NoText THEN detail ELSE <<"Unknown error">>

\* l.message.startsWith(check mark)
StartsWithCheck(message) == Len(message) > 0 /\ Head(message) = CHECK

\* parts.join(" - ")
RECURSIVE Join(_)
Join(parts) ==
    IF parts = <<>> THEN <<>>
    ELSE IF Len(parts) = 1 THEN Head(parts)
    ELSE Head(parts) \o <<" - ">> \o Join(Tail(parts))

\* the values of event.step and of event.status
Steps == {UNDEF, "fetch", "security", "error", "done"}
Stati == {UNDEF, "running", "warning", "error"}

\* Mutant of live-analysis.tsx:33-35: the status is looked at before the step.
eventToSeverityStatusFirst(step, status) ==
    IF status = "error" THEN "error"
    ELSE IF step = "done" THEN "success"
    ELSE IF step = "error" THEN "error"
    ELSE IF status = "warning" THEN "warning"
    ELSE IF step = "security" THEN "warning"
    ELSE "info"

\* Mutant of live-analysis.tsx:35-36: the status is not looked at.
eventToSeverityIgnoresStatus(step, status) ==
    IF step = "done" THEN "success"
    ELSE IF step = "error" THEN "error"
    ELSE IF step = "security" THEN "warning"
    ELSE "info"

\* live-analysis.tsx:32-39
eventToSeverity(step, status) ==
    IF step = "done" THEN "success"
    ELSE IF step = "error" THEN "error"
    ELSE IF status = "error" THEN "error"
    ELSE IF status = "warning" THEN "warning"
    ELSE IF step = "security" THEN "warning"
    ELSE "info"

\* logs.tsx:30-37, the same mapping on the logs page
eventSeverity(ev) ==
    IF ev.step = "done" THEN "success"
    ELSE IF ev.step = "error" THEN "error"
    ELSE IF ev.status = "error" THEN "error"
    ELSE IF ev.status = "warning" THEN "warning"
    ELSE IF ev.step = "security" THEN "warning"
    ELSE "info"

\* live-analysis.tsx:42-50
eventToMessage(event) ==
    IF event.step = "done"
    THEN <<CHECK, " Documentation pipeline completed successfully.">>
    ELSE IF event.step = "error"
    THEN <<CROSS, " Pipeline error: ">> \o FirstText(event.msg, event.detail)
    ELSE LET parts ==
                (IF event.step # UNDEF THEN << <<"[", event.step, "]">> >> ELSE <<>>)
                \o (IF HasText(event.msg) THEN <<event.msg>> ELSE <<>>)
                \o (IF HasText(event.detail) THEN <<event.detail>> ELSE <<>>)
         IN  IF Join(parts) = <<>> THEN <<"Processing...">> ELSE Join(parts)

\* What JSON.parse(ev.data) can give the handler: objects with the fields
\* it reads.
AllEvents ==
    [type : {UNDEF}, step : Steps, status : Stati, msg : Texts, detail : Texts]

\* {"type": "ping"}
Ping == [type |-> "ping", step |-> UNDEF, status |-> UNDEF,
         msg |-> NoText, detail |-> NoText]

\* ev.data that JSON.parse rejects, or parses to something that has no
\* fields (null): the catch of live-analysis.tsx:145-147 ignores it
Unparsable == [type |-> "(unparsable)", step |-> UNDEF, status |-> UNDEF,
               msg |-> NoText, detail |-> NoText]

\* no message has been received
NoMessage == [type |-> "(none)", step |-> UNDEF, status |-> UNDEF,
              msg |-> NoText, detail |-> NoText]

Event(step, status, msg) ==
    [type |-> UNDEF, step |-> step, status |-> status, msg |-> msg,
     detail |-> NoText]

\* The messages the server sends on the stream of one run.
StreamMessages ==
    {Unparsable, Ping,
     Event("done", UNDEF, NoText),
     Event("error", UNDEF, <<"text">>),
     Event(UNDEF, "error", <<CHECK, "text">>)}

\* Number of messages the page is called with during one run.
MaxEvents == 3

\* The projects the route can name.
ProjectIds == {"p1", "p2"}

\* Project.status in the store; ABSENT: the list does not hold the project
ABSENT == "absent"
ProjectStatuses == {"running", "completed", "failed"}

\* Where the transport of the live connection stands: its request is sent,
\* the stream is open, it waits to retry, its promise has resolved.
Phases == {"fetching", "open", "waiting", "closed"}

\* React drops the state update of a component that is not mounted.
SetState(old, new) == IF mounted THEN new ELSE old

\* Mutant of part_000:213-215: the changes are merged into every project.
updateLocalProjectAll(store, x, status) ==
    [y \in DOMAIN store |-> IF store[y] = ABSENT THEN ABSENT ELSE status]

\* part_000:211-217: updateLocalProject(x, {status}) maps over the list
updateLocalProject(store, x, status) ==
    [store EXCEPT ![x] = IF @ = ABSENT THEN ABSENT ELSE status]

\* Mutant of live-analysis.tsx:117: a ping is handled as an event.
IgnoredOnlyUnparsable(data) == data = Unparsable

\* live-analysis.tsx:117: if (data.type === "ping") return, and the catch
\* around the handler
Ignored(data) == data = Unparsable \/ data.type = "ping"

\* Mutant of live-analysis.tsx:123-134: nothing is logged while paused.
HandledUnlessPaused(prev, data) ==
    IF isPaused \/ (data.step = "done"
                    /\ \E i \in 1..Len(prev) : StartsWithCheck(prev[i].message))
    THEN prev
    ELSE Append(prev, [message |-> eventToMessage(data),
                       severity |-> eventToSeverity(data.step, data.status)])

\* Mutant of live-analysis.tsx:126-133: the new entry is put first.
HandledPrepends(prev, data) ==
    IF data.step = "done" /\ \E i \in 1..Len(prev) : StartsWithCheck(prev[i].message)
    THEN prev
    ELSE <<[message |-> eventToMessage(data),
            severity |-> eventToSeverity(data.step, data.status)]>> \o prev

\* live-analysis.tsx:123-134: the updater given to setLogs.  Of an entry
\* the message and the severity are kept; its id and its timestamp are the
\* time it was made at.
Handled(prev, data) ==
    IF data.step = "done" /\ \E i \in 1..Len(prev) : StartsWithCheck(prev[i].message)
    THEN prev
    ELSE Append(prev, [message |-> eventToMessage(data),
                       severity |-> eventToSeverity(data.step, data.status)])

\* live-analysis.tsx:71-76: the effect on [logs, isPaused] scrolls to the
\* end of the log unless the page is paused
AutoScroll(paused, log, at) == IF paused THEN at ELSE Len(log)

\* Mutant of live-analysis.tsx:170-172: the cleanup ends the connection
\* state too.
CleanupDisconnects(state) == "disconnected"

\* live-analysis.tsx:170-172: the cleanup of the effect calls ctrl.abort()
\* and sets no state
Cleanup(state) == state

\* Mutant of live-analysis.tsx:152: an error of the transport ends the
\* connection state.
onerrorDisconnects(aborted, state) == IF aborted THEN state ELSE "disconnected"

\* live-analysis.tsx:150-154: onerror returns without throwing, so the
\* transport retries on its own
onerror(aborted, state) == IF aborted THEN state ELSE "reconnecting"

\* live-analysis.tsx:156-160
onclose(aborted, state) == IF aborted THEN state ELSE "disconnected"

\* live-analysis.tsx:162-167: the catch around await fetchEventSource(...),
\* as the pair <<connectionState, loadError>> it leaves
rejection(aborted, state, error) ==
    IF aborted THEN <<state, error>>
    ELSE <<"disconnected", "Failed to connect to the stream.">>

\* live-analysis.tsx:57-62 and 79-93: the page as it is mounted on project
\* "p1" with the store holding store; the effect has sent getProject(id) and
\* the stream request.
PageInit(store) ==
    /\ logs = <<>>
    /\ isPaused = FALSE
    /\ connectionState = "connecting"
    /\ pipelineStatus = "running"
    /\ loadError = NULL
    /\ mounted = TRUE
    /\ id = "p1"
    /\ phase = "fetching"
    /\ stale = {}
    /\ projects = store
    /\ loading = {"p1"}
    /\ scrolled = 0
    /\ received = 0
    /\ dones = 0
    /\ last = NoMessage

\* what the page never writes
beyondPage == <<vars, probe, authVars, storeVars>>

\* live-analysis.tsx:112-148: onmessage of the connection opened for
\* project x is called with ev.data = data.  The handler tests neither
\* ctrl.signal.aborted nor pausedRef.
onmessage(x, data) ==
    /\ received < MaxEvents
    /\ received' = received + 1
    /\ dones' = IF data.step = "done" THEN dones + 1 ELSE dones
    /\ last' = data
    /\ IF Ignored(data)
       THEN UNCHANGED <<logs, pipelineStatus, connectionState, projects, scrolled>>
       ELSE /\ logs' = SetState(logs, Handled(logs, data))
            /\ pipelineStatus' = SetState(pipelineStatus,
                    IF data.step = "done" THEN "done"
                    ELSE IF data.step = "error" THEN "error" ELSE pipelineStatus)
            /\ connectionState' = SetState(connectionState,
                    IF data.step \in {"done", "error"} THEN "disconnected"
                    ELSE connectionState)
            /\ projects' =
                    IF data.step = "done"
                    THEN updateLocalProject(projects, x, "completed")
                    ELSE IF data.step = "error"
                    THEN updateLocalProject(projects, x, "failed")
                    ELSE projects
            /\ scrolled' = IF logs' # logs
                           THEN AutoScroll(isPaused, logs', scrolled)
                           ELSE scrolled
    /\ UNCHANGED <<isPaused, loadError, mounted, id, phase, stale, loading>>
    /\ UNCHANGED beyondPage

\* The live connection.  The transport is @microsoft/fetch-event-source as
\* live-analysis.tsx:95-161 calls it: what onopen throws goes to onerror, a
\* return of onerror schedules a retry, and only a throw of onerror rejects
\* the promise.

\* fetch() rejects: the transport calls onerror and waits to retry
ConnectFails ==
    /\ mounted /\ phase = "fetching"
    /\ connectionState' = onerror(FALSE, connectionState)
    /\ phase' = "waiting"
    /\ UNCHANGED <<logs, isPaused, pipelineStatus, loadError, mounted, id,
                   stale, projects, loading, scrolled, received, dones, last>>
    /\ UNCHANGED beyondPage

\* live-analysis.tsx:102-106: the response is ok
OpenOk ==
    /\ mounted /\ phase = "fetching"
    /\ connectionState' = "connected"
    /\ loadError' = NULL
    /\ phase' = "open"
    /\ UNCHANGED <<logs, isPaused, pipelineStatus, mounted, id,
                   stale, projects, loading, scrolled, received, dones, last>>
    /\ UNCHANGED beyondPage

\* live-analysis.tsx:107-109 and 150-154: the response is not ok, onopen
\* throws, the transport hands the error to onerror and waits to retry
OpenNotOk ==
    /\ mounted /\ phase = "fetching"
    /\ connectionState' = onerror(FALSE, connectionState)
    /\ phase' = "waiting"
    /\ UNCHANGED <<logs, isPaused, pipelineStatus, loadError, mounted, id,
                   stale, projects, loading, scrolled, received, dones, last>>
    /\ UNCHANGED beyondPage

\* a message arrives on the open stream
Message(data) ==
    /\ mounted /\ phase = "open"
    /\ data \in StreamMessages
    /\ onmessage(id, data)

\* reading the open stream fails: the transport calls onerror
StreamDrops ==
    /\ mounted /\ phase = "open"
    /\ connectionState' = onerror(FALSE, connectionState)
    /\ phase' = "waiting"
    /\ UNCHANGED <<logs, isPaused, pipelineStatus, loadError, mounted, id,
                   stale, projects, loading, scrolled, received, dones, last>>
    /\ UNCHANGED beyondPage

\* the server ends the stream: the transport calls onclose and resolves
StreamEnds ==
    /\ mounted /\ phase = "open"
    /\ connectionState' = onclose(FALSE, connectionState)
    /\ phase' = "closed"
    /\ UNCHANGED <<logs, isPaused, pipelineStatus, loadError, mounted, id,
                   stale, projects, loading, scrolled, received, dones, last>>
    /\ UNCHANGED beyondPage

\* the retry timer of the transport fires: the request is sent again
Retry ==
    /\ mounted /\ phase = "waiting"
    /\ phase' = "fetching"
    /\ UNCHANGED <<logs, isPaused, connectionState, pipelineStatus, loadError,
                   mounted, id, stale, projects, loading,
                   scrolled, received, dones, last>>
    /\ UNCHANGED beyondPage

\* The connections whose controller has been aborted.  The handlers are
\* written for a transport that may still call back after the abort
\* (live-analysis.tsx:151, 157, 163 test ctrl.signal.aborted), so any of
\* them may be called for a connection in stale.

\* live-analysis.tsx:102-106: onopen with an ok response, after the abort
LateOpen(x) ==
    /\ x \in stale
    /\ connectionState' = SetState(connectionState, "connected")
    /\ loadError' = SetState(loadError, NULL)
    /\ UNCHANGED <<logs, isPaused, pipelineStatus, mounted, id, phase,
                   stale, projects, loading, scrolled, received, dones, last>>
    /\ UNCHANGED beyondPage

\* live-analysis.tsx:112-148: onmessage with a buffered message, after the
\* abort
LateMessage(x, data) ==
    /\ x \in stale
    /\ data \in StreamMessages
    /\ onmessage(x, data)

\* live-analysis.tsx:150-154: onerror after the abort
LateError(x) ==
    /\ x \in stale
    /\ connectionState' = SetState(connectionState, onerror(TRUE, connectionState))
    /\ UNCHANGED <<logs, isPaused, pipelineStatus, loadError, mounted, id,
                   phase, stale, projects, loading,
                   scrolled, received, dones, last>>
    /\ UNCHANGED beyondPage

\* live-analysis.tsx:156-160: onclose after the abort
LateClose(x) ==
    /\ x \in stale
    /\ connectionState' = SetState(connectionState, onclose(TRUE, connectionState))
    /\ UNCHANGED <<logs, isPaused, pipelineStatus, loadError, mounted, id,
                   phase, stale, projects, loading,
                   scrolled, received, dones, last>>
    /\ UNCHANGED beyondPage

\* live-analysis.tsx:162-167: the promise rejects after the abort
LateRejection(x) ==
    /\ x \in stale
    /\ connectionState' =
            SetState(connectionState, rejection(TRUE, connectionState, loadError)[1])
    /\ loadError' = SetState(loadError, rejection(TRUE, connectionState, loadError)[2])
    /\ UNCHANGED <<logs, isPaused, pipelineStatus, mounted, id,
                   phase, stale, projects, loading,
                   scrolled, received, dones, last>>
    /\ UNCHANGED beyondPage

\* live-analysis.tsx:234: the pause button; then the effects on isPaused:
\* line 69 sets a ref no handler reads, lines 71-76 scroll the view.
TogglePause ==
    /\ mounted
    /\ isPaused' = ~isPaused
    /\ scrolled' = AutoScroll(isPaused', logs, scrolled)
    /\ UNCHANGED <<logs, connectionState, pipelineStatus, loadError, mounted,
                   id, phase, stale, projects, loading, received, dones, last>>
    /\ UNCHANGED beyondPage

\* live-analysis.tsx:79-93 and 170-173: the route changes to project n; the
\* cleanup aborts the connection and the effect runs again.  The state of
\* the component is kept.  A project is visited once.
Rerun(n) ==
    /\ mounted
    /\ n \in ProjectIds \ (stale \cup {id})
    /\ connectionState' = Cleanup(connectionState)
    /\ stale' = stale \cup {id}
    /\ id' = n
    /\ phase' = "fetching"
    /\ loading' = loading \cup {n}
    /\ UNCHANGED <<logs, isPaused, pipelineStatus, loadError, mounted,
                   projects, scrolled, received, dones, last>>
    /\ UNCHANGED beyondPage

\* live-analysis.tsx:170-172: the page is left; the cleanup aborts the
\* connection
Unmount ==
    /\ mounted
    /\ connectionState' = Cleanup(connectionState)
    /\ mounted' = FALSE
    /\ stale' = stale \cup {id}
    /\ phase' = "closed"
    /\ UNCHANGED <<logs, isPaused, pipelineStatus, loadError, id,
                   projects, loading, scrolled, received, dones, last>>
    /\ UNCHANGED beyondPage

\* part_000:176-192: getProject(x) resolves; the store replaces or adds the
\* project as the server sent it.  The page is opened on a project whose
\* pipeline runs.
ProjectLoaded(x) ==
    /\ x \in loading
    /\ loading' = loading \ {x}
    /\ projects' = [projects EXCEPT ![x] = "running"]
    /\ UNCHANGED <<logs, isPaused, connectionState, pipelineStatus, loadError,
                   mounted, id, phase, stale, scrolled, received, dones, last>>
    /\ UNCHANGED beyondPage

\* part_000:176-192 and live-analysis.tsx:85: getProject(x) rejects
ProjectFails(x) ==
    /\ x \in loading
    /\ loading' = loading \ {x}
    /\ UNCHANGED <<logs, isPaused, connectionState, pipelineStatus, loadError,
                   mounted, id, phase, stale, projects,
                   scrolled, received, dones, last>>
    /\ UNCHANGED beyondPage

StreamNext ==
    \/ ConnectFails
    \/ OpenOk
    \/ OpenNotOk
    \/ \E d \in StreamMessages : Message(d)
    \/ StreamDrops
    \/ StreamEnds
    \/ Retry
    \/ \E x \in ProjectIds : LateOpen(x)
    \/ \E x \in ProjectIds, d \in StreamMessages : LateMessage(x, d)
    \/ \E x \in ProjectIds : LateError(x)
    \/ \E x \in ProjectIds : LateClose(x)
    \/ \E x \in ProjectIds : LateRejection(x)
    \/ TogglePause
    \/ \E n \in ProjectIds : Rerun(n)
    \/ Unmount
    \/ \E x \in ProjectIds : ProjectLoaded(x)
    \/ \E x \in ProjectIds : ProjectFails(x)

\* no pure function is being applied
NoProbe == [event |-> Ping, applied |-> FALSE, severity |-> "",
            listSeverity |-> "", message |-> <<>>]

(***************************************************************************)
(* The auth store, src/src/store/auth.ts, with initAuth (called by         *)
(* AppRoutes on mount, App.tsx:78-84) and handleLogout                     *)
(* (dashboard-layout.tsx:29-38).  A function that awaits a call runs on    *)
(* in the drain of the microtask queue in which the call ends: while such  *)
(* a continuation is due nothing else happens (Quiet).                     *)
(***************************************************************************)
\* data.user of an AuthResponse
USER == "user"

\* auth.ts:24-26
AuthStoreInit ==
    /\ user = NULL
    /\ isAuthenticated = FALSE
    /\ initialized = FALSE
    /\ roles = [c \in Calls |-> "none"]

\* api.ts:143-154: data.accessToken of what apiFetch<AuthResponse> returned
\* for the response res.  A JSON body is an AuthResponse; for a 2xx response
\* that is not JSON apiFetch returns the Response object, which has no such
\* field.
AccessTokens(res) == IF res.ctype = "json" THEN Tokens ELSE {UNDEF}

\* data.user of the same value
UserOf(res) == IF res.ctype = "json" THEN USER ELSE UNDEF

\* Mutant of auth.ts:36: clearAuth leaves the token of the client alone.
clearAuthKeepsToken(token) ==
    [accessToken |-> token, user |-> NULL, isAuthenticated |-> FALSE]

\* auth.ts:35-38: clearAuth, as what it leaves
clearAuth(token) ==
    [accessToken |-> NULL, user |-> NULL, isAuthenticated |-> FALSE]

\* no function that awaits a call that has ended is still to run on
Quiet ==
    \A c \in Calls :
        ~(calls[c].pc = "done" /\ roles[c] \in {"initAuth", "logout", "login"})

\* api.ts:97-122: role calls apiFetch and awaits it (see apiFetch above)
Awaited(c, skipAuth, role) ==
    /\ Quiet
    /\ calls[c].pc = "idle"
    /\ \A d \in Calls : d < c => calls[d].pc # "idle"
    /\ calls' = [calls EXCEPT ![c] =
            [@ EXCEPT !.pc = "fetch1", !.skipAuth = skipAuth,
                      !.auth = FirstAuth(accessToken, skipAuth), !.sends = 1]]
    /\ roles' = [roles EXCEPT ![c] = role]
    /\ UNCHANGED <<accessToken, isRefreshing, refreshPromise, refreshes>>
    /\ UNCHANGED <<user, isAuthenticated, initialized>>
    /\ UNCHANGED <<pageVars, probe, storeVars>>

\* auth.ts:47-49 and api.ts:187-188: AppRoutes mounts and calls initAuth(),
\* which awaits authApi.refresh(); nothing else runs before it is done
initAuth(c) ==
    /\ ~initialized
    /\ \A d \in Calls : roles[d] = "none"
    /\ Awaited(c, TRUE, "initAuth")

\* dashboard-layout.tsx:29-31 and api.ts:190-191: the user of a protected
\* page logs out; handleLogout awaits authApi.logout()
handleLogout(c) ==
    /\ initialized /\ isAuthenticated
    /\ Awaited(c, FALSE, "logout")

\* a protected page makes any other call
Request(c) ==
    /\ initialized /\ isAuthenticated
    /\ Awaited(c, FALSE, "page")

\* auth.ts:49-57: initAuth runs on after authApi.refresh() has settled
InitAuthDone(c, token) ==
    /\ roles[c] = "initAuth"
    /\ calls[c].pc = "done"
    /\ IF calls[c].outcome.kind = "returned"
       THEN /\ token \in AccessTokens(calls[c].res)
            /\ accessToken' = token
            /\ user' = UserOf(calls[c].res)
            /\ isAuthenticated' = TRUE
       ELSE /\ token = NULL
            /\ accessToken' = NULL
            /\ UNCHANGED <<user, isAuthenticated>>
    /\ initialized' = TRUE
    /\ roles' = [roles EXCEPT ![c] = "initDone"]
    /\ UNCHANGED <<isRefreshing, refreshPromise, refreshes, calls>>
    /\ UNCHANGED <<pageVars, probe, storeVars>>

\* dashboard-layout.tsx:32-37: handleLogout runs on after authApi.logout()
\* has settled; the finally block calls clearAuth() whatever the outcome
LogoutDone(c) ==
    /\ roles[c] = "logout"
    /\ calls[c].pc = "done"
    /\ accessToken' = clearAuth(accessToken).accessToken
    /\ user' = clearAuth(accessToken).user
    /\ isAuthenticated' = clearAuth(accessToken).isAuthenticated
    /\ roles' = [roles EXCEPT ![c] = "loggedOut"]
    /\ UNCHANGED <<isRefreshing, refreshPromise, refreshes, calls, initialized>>
    /\ UNCHANGED <<pageVars, probe, storeVars>>

\* The responses the functions of the store and of the layout tell apart:
\* they look at whether the call returned or threw and at the fields of
\* what it returned, never at the status or the code of an error, so a 401
\* stands for every response that is not ok.
SessionResponses ==
    {r \in Responses : r.status \in {200, Unauthorized} /\ r.errcode = "absent"}

\* auth.ts:29-32: setTokens(user, token), as what it leaves
setTokens(old, newUser, token) ==
    [accessToken |-> token, user |-> newUser, isAuthenticated |-> TRUE]

\* verify.tsx:477-481 and api.ts:184-185: the login form is submitted on the
\* login page, which the routes show to a user who is not authenticated;
\* onSubmit awaits authApi.login()
onSubmit(c) ==
    /\ initialized /\ ~isAuthenticated
    /\ Awaited(c, TRUE, "login")

\* verify.tsx:481-496: onSubmit runs on after authApi.login() has settled:
\* setTokens(result.user, result.accessToken), or an error message
LoginDone(c, token) ==
    /\ roles[c] = "login"
    /\ calls[c].pc = "done"
    /\ IF calls[c].outcome.kind = "returned"
       THEN /\ token \in AccessTokens(calls[c].res)
            /\ accessToken' =
                    setTokens(accessToken, UserOf(calls[c].res), token).accessToken
            /\ user' = setTokens(accessToken, UserOf(calls[c].res), token).user
            /\ isAuthenticated' =
                    setTokens(accessToken, UserOf(calls[c].res), token).isAuthenticated
       ELSE /\ token = NULL
            /\ UNCHANGED <<accessToken, user, isAuthenticated>>
    /\ roles' = [roles EXCEPT ![c] = "loginDone"]
    /\ UNCHANGED <<isRefreshing, refreshPromise, refreshes, calls, initialized>>
    /\ UNCHANGED <<pageVars, probe, storeVars>>

AuthNext ==
    \/ \E c \in Calls : initAuth(c)
    \/ \E c \in Calls : handleLogout(c)
    \/ \E c \in Calls : onSubmit(c)
    \/ \E c \in Calls, t \in Tokens \cup {UNDEF, NULL} : LoginDone(c, t)
    \/ \E c \in Calls : Request(c)
    \/ Quiet /\ \E c \in Calls : FetchFails(c)
    \/ Quiet /\ \E c \in Calls, r \in SessionResponses : Response(c, r)
    \/ Quiet /\ \E p \in 1..Len(refreshes), k \in {"network", "notok", "ok"} :
            RefreshResponse(p, k)
    \/ Quiet /\ \E p \in 1..Len(refreshes), ok \in BOOLEAN,
                  d \in Tokens \cup {UNDEF, EMPTY},
                  a \in Tokens \cup {UNDEF, EMPTY} : RefreshBody(p, ok, d, a)
    \/ \E c \in Calls, t \in Tokens \cup {UNDEF, NULL} : InitAuthDone(c, t)
    \/ \E c \in Calls : LogoutDone(c)

(***************************************************************************)
(* The project store, src/unnamed/part_000 (projects.ts).  Each function   *)
(* of the store awaits one projectsApi call and then writes the list with  *)
(* set(): the call and what the server does with it is one step, the       *)
(* continuation after the await another, and the continuations of calls in *)
(* flight run in any order.  The server gives every project it creates an  *)
(* id it has never used and lists each project once.                       *)
(***************************************************************************)
\* Number of projectsApi calls made during one run.
MaxRequests == 3

\* no id (the call names no project)
NOID == "none"

\* the ids of seq are pairwise different
Unique(seq) == \A i, j \in 1..Len(seq) : i # j => seq[i] # seq[j]

\* data.projects of a list response: the projects of S, each once
RECURSIVE Listing(_)
Listing(S) ==
    IF S = {} THEN <<>>
    ELSE LET x == CHOOSE y \in S : TRUE IN <<x>> \o Listing(S \ {x})

\* part_000:145 and 187: [project, ...state.projects]
Prepended(prev, x) == <<x>> \o prev

\* part_000:163, 171 and 186: state.projects.map(p => p.id === id ? project : p)
Replaced(prev, x) == [i \in 1..Len(prev) |-> IF prev[i] = x THEN x ELSE prev[i]]

\* part_000:154: state.projects.filter(p => p.id !== id)
Without(prev, x) == SelectSeq(prev, LAMBDA y : y # x)

\* part_000:181-189: the updater of getProject
Cached(prev, x) ==
    IF \E i \in 1..Len(prev) : prev[i] = x
    THEN Replaced(prev, x)
    ELSE Prepended(prev, x)

\* part_000:114: the store as it is created, with the server holding held
StoreInit(held) ==
    /\ list = <<>>
    /\ server = held
    /\ created = held
    /\ answers = {}
    /\ requests = 0

\* what the project store never writes
beyondStore == <<vars, pageVars, probe, authVars>>

\* a projectsApi call is made and the server answers it; the answer is in
\* flight until the function that awaits it runs on
Call(op, ok, x, ids) ==
    /\ requests < MaxRequests
    /\ requests' = requests + 1
    /\ answers' = answers \cup {[op |-> op, ok |-> ok, id |-> x, ids |-> ids]}
    /\ UNCHANGED list
    /\ UNCHANGED beyondStore

\* the function that awaits answer r runs on
Resumed(r) ==
    /\ r \in answers
    /\ answers' = answers \ {r}
    /\ UNCHANGED <<server, created, requests>>
    /\ UNCHANGED beyondStore

\* part_000:121-124: fetchProjects(params); the server lists the projects
\* that match params, or the call fails
fetchProjects ==
    /\ \E ok \in BOOLEAN, T \in SUBSET server :
            /\ ~ok => T = {}
            /\ Call("list", ok, NOID, Listing(T))
    /\ UNCHANGED <<server, created>>

\* part_000:140-141: createProject(repoUrl); the server creates the project
\* x, or the call fails
createProject(x) ==
    /\ x \in ProjectIds \ created
    /\ \E ok \in BOOLEAN :
            /\ Call("create", ok, x, <<>>)
            /\ server' = IF ok THEN server \cup {x} ELSE server
            /\ created' = IF ok THEN created \cup {x} ELSE created

\* part_000:151-152: deleteProject(x) of a listed project
deleteProject(x) ==
    /\ \E i \in 1..Len(list) : list[i] = x
    /\ Call("delete", x \in server, x, <<>>)
    /\ server' = server \ {x}
    /\ UNCHANGED created

\* part_000:159-160: archiveProject(x) of a listed project
archiveProject(x) ==
    /\ \E i \in 1..Len(list) : list[i] = x
    /\ Call("archive", x \in server, x, <<>>)
    /\ UNCHANGED <<server, created>>

\* part_000:167-168: retryProject(x) of a listed project
retryProject(x) ==
    /\ \E i \in 1..Len(list) : list[i] = x
    /\ Call("retry", x \in server, x, <<>>)
    /\ UNCHANGED <<server, created>>

\* part_000:176-177: getProject(x) for the project a route names
getProject(x) ==
    /\ x \in ProjectIds
    /\ Call("get", x \in server, x, <<>>)
    /\ UNCHANGED <<server, created>>

\* part_000:125-137: the list is replaced, or the error is kept
fetchProjectsDone(r) ==
    /\ r.op = "list"
    /\ Resumed(r)
    /\ list' = IF r.ok THEN r.ids ELSE list

\* part_000:142-148: the new project is put first; a rejection is the
\* caller's
createProjectDone(r) ==
    /\ r.op = "create"
    /\ Resumed(r)
    /\ list' = IF r.ok THEN Prepended(list, r.id) ELSE list

\* part_000:153-156
deleteProjectDone(r) ==
    /\ r.op = "delete"
    /\ Resumed(r)
    /\ list' = IF r.ok THEN Without(list, r.id) ELSE list

\* part_000:161-164
archiveProjectDone(r) ==
    /\ r.op = "archive"
    /\ Resumed(r)
    /\ list' = IF r.ok THEN Replaced(list, r.id) ELSE list

\* part_000:169-173
retryProjectDone(r) ==
    /\ r.op = "retry"
    /\ Resumed(r)
    /\ list' = IF r.ok THEN Replaced(list, r.id) ELSE list

\* part_000:178-191
getProjectDone(r) ==
    /\ r.op = "get"
    /\ Resumed(r)
    /\ list' = IF r.ok THEN Cached(list, r.id) ELSE list

ProjectsNext ==
    \/ fetchProjects
    \/ \E x \in ProjectIds : createProject(x)
    \/ \E x \in ProjectIds : deleteProject(x)
    \/ \E x \in ProjectIds : archiveProject(x)
    \/ \E x \in ProjectIds : retryProject(x)
    \/ \E x \in ProjectIds : getProject(x)
    \/ \E r \in answers : fetchProjectsDone(r)
    \/ \E r \in answers : createProjectDone(r)
    \/ \E r \in answers : deleteProjectDone(r)
    \/ \E r \in answers : archiveProjectDone(r)
    \/ \E r \in answers : retryProjectDone(r)
    \/ \E r \in answers : getProjectDone(r)

(***************************************************************************)
(* Specifications                                                          *)
(***************************************************************************)
\* The request client alone: the page is mounted and stays as it is.
Init ==
    /\ ApiInit
    /\ PageInit([x \in ProjectIds |-> ABSENT])
    /\ probe = NoProbe
    /\ AuthStoreInit
    /\ StoreInit({})

Spec == Init /\ [][Next]_vars

\* auth.ts:49-51: the state initAuth leaves when the browser still holds the
\* cookie of a session: the token and the user of the refresh response
Restored ==
    /\ accessToken = "tokA"
    /\ isRefreshing = FALSE
    /\ refreshPromise = 0
    /\ refreshes = <<>>
    /\ calls = [c \in Calls |-> IdleCall]
    /\ PageInit([x \in ProjectIds |-> ABSENT])
    /\ probe = NoProbe
    /\ user = USER
    /\ isAuthenticated = TRUE
    /\ initialized = TRUE
    /\ roles = [c \in Calls |-> "none"]
    /\ StoreInit({})

\* The request client as the auth store and the pages use it, from the
\* load of the application or from a session that initAuth has restored.
AuthInit == Init \/ Restored

AuthSpec == AuthInit /\ [][AuthNext]_<<vars, authVars>>

\* The live analysis page alone, opened from the address bar (the store is
\* empty) or from the list of projects (the store holds them).
StreamInit ==
    /\ ApiInit
    /\ \E status \in {ABSENT, "running"} :
            PageInit([x \in ProjectIds |-> status])
    /\ probe = NoProbe
    /\ AuthStoreInit
    /\ StoreInit({})

StreamSpec == StreamInit /\ [][StreamNext]_pageVars

\* The pure functions of the two pages, applied to one event.
SeverityInit ==
    /\ ApiInit
    /\ PageInit([x \in ProjectIds |-> ABSENT])
    /\ probe \in {[event |-> e, applied |-> FALSE, severity |-> "",
                   listSeverity |-> "", message |-> <<>>] : e \in AllEvents}
    /\ AuthStoreInit
    /\ StoreInit({})

\* live-analysis.tsx:119-120 and logs.tsx:108, 113: the event is classified
Classify ==
    /\ ~probe.applied
    /\ probe.event \in AllEvents
    /\ probe' = [probe EXCEPT
            !.applied = TRUE,
            !.severity = eventToSeverity(probe.event.step, probe.event.status),
            !.listSeverity = eventSeverity(probe.event),
            !.message = eventToMessage(probe.event)]
    /\ UNCHANGED <<vars, pageVars, authVars, storeVars>>

SeverityNext == Classify

SeveritySpec == SeverityInit /\ [][SeverityNext]_probe

\* The project store alone, with a server that holds no project or one.
ProjectsInit ==
    /\ ApiInit
    /\ PageInit([x \in ProjectIds |-> ABSENT])
    /\ probe = NoProbe
    /\ AuthStoreInit
    /\ \E held \in {{}, {"p1"}} : StoreInit(held)

ProjectsSpec == ProjectsInit /\ [][ProjectsNext]_storeVars

(***************************************************************************)
(* Properties of the live analysis page                                    *)
(***************************************************************************)

\* C17: the severity of an event is success when its step is "done",
\* whatever its status; otherwise error when its step or its status is
\* "error"; otherwise warning when its status is "warning" or its step is
\* "security"; otherwise info.  Both pages classify alike.
C17_Precedence ==
    probe.applied =>
        LET e == probe.event
            expected ==
                IF e.step = "done" THEN "success"
                ELSE IF e.step = "error" \/ e.status = "error" THEN "error"
                ELSE IF e.status = "warning" \/ e.step = "security" THEN "warning"
                ELSE "info"
        IN  /\ probe.severity = expected
            /\ probe.listSeverity = expected

\* a done event whose status is "error" has been classified as a success
C17_Witness ==
    /\ probe.applied
    /\ probe.event.step = "done"
    /\ probe.event.status = "error"
    /\ probe.severity = "success"

\* the entries of the log that a done event made
SuccessEntries == {i \in 1..Len(logs) : logs[i].severity = "success"}

\* a handler of a connection is called after its controller was aborted
LateCallback ==
    \E x \in stale :
        \/ LateOpen(x)
        \/ \E d \in StreamMessages : LateMessage(x, d)
        \/ LateError(x)
        \/ LateClose(x)
        \/ LateRejection(x)

\* the cleanup of the effect runs
Teardown == Unmount \/ \E n \in ProjectIds : Rerun(n)

\* the handler of a mounted page has been called with a message that is
\* neither a ping nor unparsable
Logged ==
    /\ received' = received + 1
    /\ mounted
    /\ last' \notin {Ping, Unparsable}

\* C11: the log never holds two success entries (a done event that finds
\* one is discarded), and once two done events have been received it holds
\* exactly one.
C11_Claim ==
    /\ Cardinality(SuccessEntries) <= 1
    /\ (mounted /\ dones >= 2) => Cardinality(SuccessEntries) = 1

\* The part of C11 that the code keeps: at most one success entry.
C11_AtMostOne == Cardinality(SuccessEntries) <= 1

\* C12: a handler called after the teardown of its connection changes
\* neither the log, the connection state, the pipeline status, the load
\* error nor the project store.
C12_Claim ==
    [][LateCallback =>
        UNCHANGED <<logs, connectionState, pipelineStatus, loadError,
                    projects>>]_pageVars

\* The part of C12 that the code keeps: onerror, onclose and the rejection
\* handler change nothing after the teardown.
C12_Guarded ==
    [][(\E x \in stale : LateError(x) \/ LateClose(x) \/ LateRejection(x)) =>
        UNCHANGED <<logs, connectionState, pipelineStatus, loadError,
                    projects>>]_pageVars

C14_PingInert ==
    [][(received' = received + 1 /\ last' = Ping) =>
        UNCHANGED <<logs, connectionState, pipelineStatus, projects>>]_pageVars

\* a ping was the last message of an open, running stream
C14_Witness ==
    /\ last = Ping
    /\ mounted
    /\ connectionState = "connected"
    /\ pipelineStatus = "running"

\* C15: pausing never stops ingestion.  Toggling the pause changes nothing
\* but the flag; a message that is logged is logged whether the page is
\* paused or not; the flag only decides whether the view follows the log.
C15_PauseInert ==
    [][/\ TogglePause =>
            UNCHANGED <<logs, connectionState, pipelineStatus, loadError,
                        projects>>
       /\ (Logged /\ last'.step # "done") =>
            /\ Len(logs') = Len(logs) + 1
            /\ logs'[Len(logs')].message = eventToMessage(last')
       /\ ~isPaused' => scrolled' = Len(logs')
       /\ (isPaused /\ isPaused') => scrolled' = scrolled]_pageVars

\* the page is paused and the log has grown since
C15_Witness ==
    /\ isPaused
    /\ scrolled < Len(logs)

\* C16: the log is append-only and in the order of arrival: a step leaves
\* it as it is or puts one entry, that of the message just received, at
\* its end.
C16_AppendOnly ==
    [][\/ logs' = logs
       \/ /\ Len(logs') = Len(logs) + 1
          /\ SubSeq(logs', 1, Len(logs)) = logs
          /\ received' = received + 1
          /\ logs'[Len(logs')].message = eventToMessage(last')]_pageVars

\* the log holds two entries of different messages
C16_Witness ==
    /\ Len(logs) >= 2
    /\ logs[1].message # logs[2].message

\* C20: when the first request of a connection fails (no response, or a
\* response that is not ok) connectionState goes from connecting to
\* disconnected and loadError is set.
C20_Claim ==
    [][((ConnectFails \/ OpenNotOk) /\ connectionState = "connecting") =>
        /\ connectionState' = "disconnected"
        /\ loadError' # NULL]_pageVars

\* C21: once the connection has set connectionState to disconnected, no
\* later callback of that connection sets it to connected or reconnecting.
\* Taken on the first connection of the page, which is the only one that
\* can have set it.
C21_Claim ==
    [][(mounted /\ stale = {} /\ stale' = {}
        /\ connectionState = "disconnected") =>
            connectionState' \notin {"connected", "reconnecting"}]_pageVars

\* The part of C21 that the code keeps: once the transport has resolved
\* (the stream was closed by the server) the first connection calls no
\* handler any more and connectionState stays as it is.
C21_AfterClose ==
    [][(mounted /\ stale = {} /\ phase = "closed") =>
            connectionState' = connectionState]_pageVars

\* C22: when the effect runs again for another project, the new connection
\* starts with connectionState = connecting.
C22_Claim ==
    [][(\E n \in ProjectIds : Rerun(n)) =>
            connectionState' = "connecting"]_pageVars

\* The part of C22 that the code keeps: the connection of the first mount
\* starts at connecting, and until a response has opened the stream it is
\* connecting or, after a request that failed, reconnecting.
C22_FirstMount ==
    (mounted /\ stale = {} /\ phase = "fetching" /\ received = 0) =>
        connectionState \in {"connecting", "reconnecting"}

\* C23: a done (error) event handled by a mounted page sets pipelineStatus
\* to done (error) and connectionState to disconnected, whatever they were,
\* and sets the project of its connection to completed (failed) where the
\* store holds it; every other project of the store is left as it is.
C23_Terminal ==
    [][\A x \in ProjectIds, d \in StreamMessages :
        (/\ mounted
         /\ d.step \in {"done", "error"}
         /\ (x = id /\ Message(d)) \/ LateMessage(x, d)) =>
            /\ pipelineStatus' = d.step
            /\ connectionState' = "disconnected"
            /\ \A y \in ProjectIds :
                projects'[y] =
                    IF y = x /\ projects[y] # ABSENT
                    THEN (IF d.step = "done" THEN "completed" ELSE "failed")
                    ELSE projects[y]]_pageVars

\* a done event has ended the run of the project shown and the other
\* project of the store still runs
C23_Witness ==
    /\ mounted
    /\ last.step = "done"
    /\ pipelineStatus = "done"
    /\ connectionState = "disconnected"
    /\ projects[id] = "completed"
    /\ \E y \in ProjectIds \ {id} : projects[y] = "running"

\* C24: pipelineStatus leaves running only, for done or for error, and no
\* event changes it once it is done or error.
C24_Claim ==
    [][/\ pipelineStatus' # pipelineStatus => pipelineStatus = "running"
       /\ pipelineStatus' \in {"running", "done", "error"}]_pageVars

\* The part of C24 that the code keeps: pipelineStatus never returns to
\* running.
C24_NeverRunning ==
    [][pipelineStatus # "running" => pipelineStatus' # "running"]_pageVars

\* C25: on the live connection an error of the transport sets
\* connectionState to reconnecting and leaves the connection waiting to
\* retry; an ok response sets it to connected and clears loadError; the end
\* of the stream sets it to disconnected.
C25_Reconnects ==
    [][/\ (mounted /\ mounted' /\ id' = id
           /\ phase \in {"fetching", "open"} /\ phase' = "waiting") =>
                connectionState' = "reconnecting"
       /\ (mounted /\ id' = id /\ phase = "fetching" /\ phase' = "open") =>
                connectionState' = "connected" /\ loadError' = NULL
       /\ (mounted /\ mounted' /\ id' = id
           /\ phase = "open" /\ phase' = "closed") =>
                connectionState' = "disconnected"
       /\ (mounted /\ phase = "waiting" /\ phase' # phase) =>
                \/ phase' = "fetching"
                \/ ~mounted']_pageVars

\* the stream has dropped and the transport waits to retry
C25_Witness ==
    /\ mounted
    /\ stale = {}
    /\ phase = "waiting"
    /\ connectionState = "reconnecting"
    /\ received > 0

\* C28: the first done event a mounted page receives is appended as a
\* success entry, whatever came before it.
C28_Claim ==
    [][(mounted /\ received' = received + 1 /\ last'.step = "done"
        /\ dones = 0) =>
            /\ Len(logs') = Len(logs) + 1
            /\ logs'[Len(logs')].severity = "success"]_pageVars

\* What the code does instead: a done event is discarded exactly when some
\* entry of the log begins with the check mark, whatever made that entry.
C28_PrefixTest ==
    [][(mounted /\ received' = received + 1 /\ last'.step = "done") =>
            IF \E i \in 1..Len(logs) : StartsWithCheck(logs[i].message)
            THEN logs' = logs
            ELSE /\ Len(logs') = Len(logs) + 1
                 /\ logs'[Len(logs')].severity = "success"]_pageVars

\* C29: an event whose status is "error" and whose step is neither "error"
\* nor "done" is appended to the log of a mounted page as an error entry and
\* changes neither pipelineStatus, connectionState nor the project store.
C29_StatusNotTerminal ==
    [][(/\ mounted
        /\ received' = received + 1
        /\ last'.type # "ping" /\ last' # Unparsable
        /\ last'.status = "error"
        /\ last'.step \notin {"error", "done"}) =>
            /\ logs' = Append(logs, [message |-> eventToMessage(last'),
                                     severity |-> "error"])
            /\ UNCHANGED <<pipelineStatus, connectionState, projects>>]_pageVars

\* such an event is the last entry of the log of a stream that still runs
C29_Witness ==
    /\ mounted
    /\ stale = {}
    /\ last.status = "error"
    /\ last.step \notin {"error", "done"}
    /\ Len(logs) > 0
    /\ logs[Len(logs)].severity = "error"
    /\ pipelineStatus = "running"
    /\ connectionState = "connected"
    /\ projects[id] = "running"

(***************************************************************************)
(* Properties of the auth store                                            *)
(***************************************************************************)

\* C18: when handleLogout has run to its end, whether authApi.logout()
\* returned or threw, the token of the client is null, the user of the
\* store is null and isAuthenticated is false.
C18_LogoutClears ==
    [][\A c \in Calls :
        (roles[c] = "logout" /\ roles'[c] = "loggedOut") =>
            /\ accessToken' = NULL
            /\ user' = NULL
            /\ isAuthenticated' = FALSE]_<<vars, authVars>>

\* a logout whose request threw has run to its end and the session is gone
C18_Witness ==
    \E c \in Calls :
        /\ roles[c] = "loggedOut"
        /\ calls[c].outcome.kind # "returned"
        /\ accessToken = NULL
        /\ user = NULL
        /\ ~isAuthenticated

\* C19: initAuth ends with initialized true whatever authApi.refresh() gave;
\* when the refresh succeeded the client holds a token and isAuthenticated
\* is true, when it failed the token is null and isAuthenticated is still
\* false; initialized never goes back to false.
C19_Claim ==
    [][/\ \A c \in Calls :
            (roles[c] = "initAuth" /\ roles'[c] = "initDone") =>
                /\ initialized'
                /\ IF calls[c].outcome.kind = "returned"
                   THEN Truthy(accessToken') /\ isAuthenticated'
                   ELSE accessToken' = NULL /\ ~isAuthenticated'
       /\ initialized => initialized']_<<vars, authVars>>

\* The part of C19 that the code keeps: as C19_Claim, but after a refresh
\* that apiFetch returned from the token is data.accessToken, which is
\* undefined when the 2xx response was not JSON.
C19_UpToBody ==
    [][/\ \A c \in Calls :
            (roles[c] = "initAuth" /\ roles'[c] = "initDone") =>
                /\ initialized'
                /\ IF calls[c].outcome.kind = "returned"
                   THEN /\ isAuthenticated'
                        /\ calls[c].res.ctype = "json" => Truthy(accessToken')
                        /\ calls[c].res.ctype # "json" => accessToken' = UNDEF
                   ELSE accessToken' = NULL /\ ~isAuthenticated'
       /\ initialized => initialized']_<<vars, authVars>>

\* C26: after handleLogout has run clearAuth the token of the client is
\* null and stays null until a login sets it: no refresh that was in flight
\* sets it.
C26_Claim ==
    [][((\E c \in Calls : roles[c] = "loggedOut")
        /\ accessToken = NULL /\ accessToken' # NULL) =>
            \E c \in Calls : roles[c] = "login" /\ roles'[c] = "loginDone"]_<<vars, authVars>>

\* The part of C26 that the code keeps: after a logout, with no refresh in
\* flight, only a login sets the token.
C26_NoneInFlight ==
    [][((\E c \in Calls : roles[c] = "loggedOut")
        /\ Pending = {} /\ accessToken = NULL /\ accessToken' # NULL) =>
            \E c \in Calls : roles[c] = "login" /\ roles'[c] = "loginDone"]_<<vars, authVars>>

\* C27: when the store says authenticated the client holds a token.
C27_Claim == isAuthenticated => Truthy(accessToken)

\* The part of C27 that the code keeps: when the store says authenticated
\* the token of the client is not null (it is a token, or undefined after a
\* 2xx response that was not JSON).
C27_NotNull == isAuthenticated => accessToken \in Tokens \cup {UNDEF}

(***************************************************************************)
(* Properties of the project store                                         *)
(***************************************************************************)

\* C30: the ids of the list of the store are pairwise different, whatever
\* calls are made and in whatever order their responses are handled.
C30_Claim == Unique(list)

\* The part of C30 that the code keeps: only the continuation of
\* createProject, which puts the new project first without looking for its
\* id, makes an id appear twice.
C30_UpToCreate ==
    [][(Unique(list) /\ ~Unique(list')) =>
            \E r \in answers : r.op = "create" /\ r.ok /\ answers' = answers \ {r}
                                /\ \E i \in 1..Len(list) : list[i] = r.id]_storeVars

====
